---- MODULE Spec2Model ----
(***************************************************************************)
(* Model of pushjack/apns.py: the APNs binary-protocol client.             *)
(*                                                                         *)
(* One behaviour is one API call (send, send_bulk or get_expired_tokens)   *)
(* running against a peer (the push gateway or the feedback service) that  *)
(* may answer, deliver its bytes in pieces, close or reset the connection  *)
(* at any moment.  Every client action holds at most one socket operation  *)
(* (connect, write, recv, close), so the peer can act between any two.     *)
(*                                                                         *)
(* Python values: None is the empty sequence <<>> and a present value v is *)
(* <<v>>; byte strings are sequences of 0..255; text strings (tokens) are  *)
(* sequences of one-character strings.                                     *)
(***************************************************************************)
EXTENDS Integers, Sequences, FiniteSets, TLC

VARIABLES
    pc,                \* position of the running call
    op,                \* the API function called
    tokens,            \* send_bulk: tokens argument; send: <<token>>
    alert,             \* alert argument
    payload,           \* payload argument / local (None or <<bytes>>)
    identifier,        \* send: identifier argument
    expiration,        \* send: expiration argument (None or <<n>>)
    config,            \* the configuration mapping
    index,             \* send_bulk: enumerate() position
    conn,              \* connection objects: "own" (opened by the call), "supplied"
    net,               \* peer side of the connection in use
    inbuf,             \* bytes received from the peer and not yet read
    toSend,            \* bytes the peer has still to deliver
    written,           \* frames written, in order: [to, frame]
    original_timeout,  \* check_errors: local original_timeout
    expired_tokens,    \* receive_feedback: local expired_tokens
    header_data,       \* receive_feedback: local header_data
    raised,            \* exception propagating out of the with block
    result,            \* outcome of the call
    opens,             \* create_socket calls that connected
    closes,            \* close() calls
    reads,             \* recv() calls
    timeouts,          \* recv() calls that timed out
    checks,            \* check_errors calls
    builds,            \* create_payload calls
    writes,            \* write() calls
    response,          \* peer: the error response it sent, or None
    entry_timeout,     \* timeout of the connection when check_errors was entered
    data,              \* what the last recv() returned; None when it raised
    length,            \* number of bytes the last recv() asked for
    recv_exc,          \* the exception the last recv() raised, or None
    stream             \* peer: everything the feedback service sends

vars == <<pc, op, tokens, alert, payload, identifier, expiration, config, index,
          conn, net, inbuf, toSend, written, original_timeout, expired_tokens,
          header_data, raised, result, opens, closes, reads, timeouts, checks,
          builds, writes, response, entry_timeout, data, length,
          recv_exc, stream>>

----------------------------------------------------------------------------
(* Bounds of the model *)

MaxTokens == 2          \* longest tokens sequence given to send_bulk
MaxRecords == 2         \* most records in a feedback stream
MaxTimeouts == 2        \* most recv() timeouts in one call

----------------------------------------------------------------------------
(* Python values *)

None == <<>>
Some(v) == <<v>>

APNS_ERROR_RESPONSE_COMMAND == 8
TOKEN_LENGTH == 64
DEFAULT_PRIORITY == 10

(* exceptions: class, message, and the (status, identifier) of a server error *)
Exception(type, message, status, ident) ==
    [type |-> type, message |-> message, status |-> status, identifier |-> ident]

APNSError(message) == Exception("APNSError", message, None, None)
APNSDataOverflow == Exception("APNSDataOverflow", "body too long", None, None)
struct_error == Exception("struct.error", "buffer size", None, None)
socket_error == Exception("socket.error", "connection", None, None)
socket_timeout == Exception("socket.timeout", "timed out", None, None)

(* raise_apns_server_error(status, identifier): the server error keyed by  *)
(* the status code, carrying the identifier.                               *)
raise_apns_server_error(status, ident) ==
    Exception("APNSServerError", "status", Some(status), Some(ident))

----------------------------------------------------------------------------
(* binascii / struct *)

HexValue ==
    [c \in {"0","1","2","3","4","5","6","7","8","9","a","b","c","d","e","f"} |->
        CASE c = "0" -> 0 [] c = "1" -> 1 [] c = "2" -> 2 [] c = "3" -> 3
          [] c = "4" -> 4 [] c = "5" -> 5 [] c = "6" -> 6 [] c = "7" -> 7
          [] c = "8" -> 8 [] c = "9" -> 9 [] c = "a" -> 10 [] c = "b" -> 11
          [] c = "c" -> 12 [] c = "d" -> 13 [] c = "e" -> 14 [] c = "f" -> 15]

(* unhexlify raises on an odd length or a non-hexadecimal character *)
unhexlify_raises(s) ==
    \/ Len(s) % 2 # 0
    \/ \E k \in 1..Len(s) : s[k] \notin DOMAIN HexValue

unhexlify(s) ==
    [k \in 1..(Len(s) \div 2) |-> 16 * HexValue[s[2 * k - 1]] + HexValue[s[2 * k]]]

RECURSIVE Pow256(_)
Pow256(n) == IF n = 0 THEN 1 ELSE 256 * Pow256(n - 1)

(* struct.pack of one unsigned big-endian integer of the given width *)
pack_uint(n, width) ==
    [k \in 1..width |-> (n \div Pow256(width - k)) % 256]

(* struct.unpack of one unsigned big-endian integer *)
RECURSIVE unpack_uint(_)
unpack_uint(bytes) ==
    IF bytes = <<>> THEN 0
    ELSE 256 * unpack_uint(SubSeq(bytes, 1, Len(bytes) - 1)) + bytes[Len(bytes)]

(* struct.unpack("<BBI", data): the identifier read little-endian *)
unpack_BBI_little_endian(bytes) ==
    [command |-> bytes[1], status |-> bytes[2],
     identifier |-> unpack_uint(<<bytes[6], bytes[5], bytes[4], bytes[3]>>)]

(* struct.unpack("!BBI", data): command, status, identifier *)
unpack_BBI(bytes) ==
    [command |-> bytes[1], status |-> bytes[2],
     identifier |-> unpack_uint(SubSeq(bytes, 3, 6))]

(* struct.unpack_from("!LH", data, 0): timestamp, token_length *)
unpack_LH(bytes) ==
    [timestamp |-> unpack_uint(SubSeq(bytes, 1, 4)),
     token_length |-> unpack_uint(SubSeq(bytes, 5, 6))]

----------------------------------------------------------------------------
(* is_valid_token, create_payload, pack_frame *)

is_valid_token(token) ==
    IF unhexlify_raises(token) THEN FALSE
    ELSE IF unhexlify(token) = <<>> THEN FALSE
    ELSE Len(token) = TOKEN_LENGTH

(* json_dumps(payload): the serialised mapping, braces around the body *)
json_dumps(body) == <<123>> \o body \o <<125>>

create_payload(a) == json_dumps(a)

(* the frame length counted with the command and length bytes in it *)
pack_frame_len_with_prefix(token, payload_, identifier_, expiration_, priority) ==
    LET token_bin == unhexlify(token)
        token_len == Len(token_bin)
        payload_len == Len(payload_)
        frame_len == 5 + 3 * 5 + token_len + payload_len + 4 + 4 + 1
    IN  <<2>> \o pack_uint(frame_len, 4)
        \o <<1>> \o pack_uint(token_len, 2) \o token_bin
        \o <<2>> \o pack_uint(payload_len, 2) \o payload_
        \o <<3>> \o pack_uint(4, 2) \o pack_uint(identifier_, 4)
        \o <<4>> \o pack_uint(4, 2) \o pack_uint(expiration_, 4)
        \o <<5>> \o pack_uint(1, 2) \o <<priority>>

pack_frame(token, payload_, identifier_, expiration_, priority) ==
    LET token_bin == unhexlify(token)
        token_len == Len(token_bin)
        payload_len == Len(payload_)
        frame_len == 3 * 5 + token_len + payload_len + 4 + 4 + 1
    IN  <<2>> \o pack_uint(frame_len, 4)
        \o <<1>> \o pack_uint(token_len, 2) \o token_bin
        \o <<2>> \o pack_uint(payload_len, 2) \o payload_
        \o <<3>> \o pack_uint(4, 2) \o pack_uint(identifier_, 4)
        \o <<4>> \o pack_uint(4, 2) \o pack_uint(expiration_, 4)
        \o <<5>> \o pack_uint(1, 2) \o <<priority>>

(* send, lines 273-295: the payload used, the error raised before any      *)
(* socket operation (or None), and the frame                               *)
send_payload(payload_, alert_) ==
    IF payload_ = None THEN create_payload(alert_) ELSE payload_[1]

(* the size test written with >= *)
send_raises_at_max(token, payload_, alert_, config_) ==
    IF ~is_valid_token(token)
    THEN Some(APNSError("Invalid token format"))
    ELSE IF Len(send_payload(payload_, alert_)) >= config_.APNS_MAX_NOTIFICATION_SIZE
    THEN Some(APNSDataOverflow)
    ELSE None

(* the token test without the length assertion of is_valid_token *)
send_raises_any_length(token, payload_, alert_, config_) ==
    IF unhexlify_raises(token) \/ unhexlify(token) = <<>>
    THEN Some(APNSError("Invalid token format"))
    ELSE IF Len(send_payload(payload_, alert_)) > config_.APNS_MAX_NOTIFICATION_SIZE
    THEN Some(APNSDataOverflow)
    ELSE None

send_raises(token, payload_, alert_, config_) ==
    IF ~is_valid_token(token)
    THEN Some(APNSError("Invalid token format"))
    ELSE IF Len(send_payload(payload_, alert_)) > config_.APNS_MAX_NOTIFICATION_SIZE
    THEN Some(APNSDataOverflow)
    ELSE None

(* the payload rebuilt by every send that passed validation *)
send_builds_always(token, payload_) ==
    IF is_valid_token(token) THEN 1 ELSE 0

(* lines 277-278: create_payload is called only when no payload was given  *)
send_builds(token, payload_) ==
    IF is_valid_token(token) /\ payload_ = None THEN 1 ELSE 0

send_frame(token, payload_, alert_, config_, identifier_, expiration_, now) ==
    LET expiration_time ==
            IF expiration_ # None THEN expiration_[1]
            ELSE now + config_.APNS_DEFAULT_EXPIRATION_OFFSET
    IN  pack_frame(token, send_payload(payload_, alert_), identifier_,
                   expiration_time, DEFAULT_PRIORITY)

----------------------------------------------------------------------------
(* Inputs *)

DEFAULT_EXPIRATION_OFFSET == 60 * 60 * 24 * 30

TokenA == [k \in 1..TOKEN_LENGTH |-> IF k % 2 = 1 THEN "a" ELSE "1"]
TokenShort == [k \in 1..(TOKEN_LENGTH - 2) |-> IF k % 2 = 1 THEN "a" ELSE "1"]
TokenOdd == [k \in 1..(TOKEN_LENGTH - 1) |-> "b"]
TokenNonHex == [k \in 1..TOKEN_LENGTH |-> IF k = 1 THEN "g" ELSE "0"]
TokenEmpty == <<>>

BulkTokens == {TokenA, TokenShort}
SendTokens == {TokenA, TokenShort, TokenOdd, TokenNonHex, TokenEmpty}

RECURSIVE SeqsUpTo(_, _)
SeqsUpTo(S, n) ==
    IF n = 0 THEN {<<>>}
    ELSE LET shorter == SeqsUpTo(S, n - 1)
         IN  shorter \cup {Append(q, x) : q \in shorter, x \in S}

Alerts == {<<104>>, <<104, 105>>}
Payloads == {None, Some(<<123, 125>>), Some(<<123, 34, 34, 125>>)}
MaxSizes == {3, 4}
ErrorTimeouts == {None, Some(10)}
DefaultTimeouts == {None, Some(5)}
Certificates == {None, Some("unreadable.pem"), Some("cert.pem")}
Expirations == {None, Some(7)}
Identifiers == {0, 258}
Times == {1000000000}

Configs ==
    [APNS_ERROR_TIMEOUT : ErrorTimeouts,
     APNS_MAX_NOTIFICATION_SIZE : MaxSizes,
     APNS_DEFAULT_EXPIRATION_OFFSET : {DEFAULT_EXPIRATION_OFFSET},
     APNS_CERTIFICATE : Certificates]

(* the file system: open(certfile, 'r') succeeds *)
Readable(certfile) == certfile = "cert.pem"

(* what the push gateway may answer *)
Responses ==
    [command : {APNS_ERROR_RESPONSE_COMMAND, 7}, status : {0, 8},
     identifier : 0..(MaxTokens - 1)]

EncodeResponse(r) == <<r.command, r.status>> \o pack_uint(r.identifier, 4)

(* what the feedback service may send: whole records, possibly cut short.  *)
(* Every byte is below 128, so that any four of them, read as a timestamp  *)
(* from any position of the stream, stay below 2^31.                       *)
FeedbackRecords ==
    {[timestamp |-> 16909060, token |-> <<26, 43>>],
     [timestamp |-> 5, token |-> <<>>]}

EncodeRecord(r) ==
    pack_uint(r.timestamp, 4) \o pack_uint(Len(r.token), 2) \o r.token

RECURSIVE EncodeStream(_)
EncodeStream(records) ==
    IF records = <<>> THEN <<>>
    ELSE EncodeRecord(Head(records)) \o EncodeStream(Tail(records))

FeedbackStreams ==
    LET whole == {EncodeStream(q) : q \in SeqsUpTo(FeedbackRecords, MaxRecords)}
    IN  UNION {{SubSeq(w, 1, n) : n \in 0..Len(w)} : w \in whole}

----------------------------------------------------------------------------
(* Sockets *)

NoConnection == [state |-> "none", timeout |-> None]

(* send ignoring its connection argument *)
connection_ignored(connection) == FALSE

(* line 297, if connection: a connection was passed to send *)
connection_supplied(connection) == connection.state # "none"

InUse == IF connection_supplied(conn["supplied"]) THEN "supplied" ELSE "own"

(* create_socket, lines 118-140: the error raised, or None for a connect   *)
(* that succeeds; connected tells whether connect() itself succeeds        *)
create_socket_raises(certfile, connected) ==
    IF certfile = None
    THEN Some(APNSError("Missing certificate file"))
    ELSE IF ~Readable(certfile[1])
    THEN Some(APNSError("The certfile is not readable"))
    ELSE IF ~connected THEN Some(socket_error)
    ELSE None

(* connection.write(frame): succeeds while the peer is there, may still    *)
(* succeed after the peer has closed, fails after a reset                  *)
WriteOutcomes == 
    CASE net = "open" -> {TRUE}
      [] net = "closed" -> {TRUE, FALSE}
      [] net = "reset" -> {FALSE}

(* connection.recv(n) on the connection in use: the possible outcomes; no  *)
(* outcome means the call blocks                                           *)
RecvOutcomes(n) ==
    IF n = 0 THEN {[kind |-> "data", data |-> <<>>]}
    ELSE IF inbuf # <<>>
    THEN {[kind |-> "data",
           data |-> SubSeq(inbuf, 1, IF n < Len(inbuf) THEN n ELSE Len(inbuf))]}
    ELSE CASE net = "closed" -> {[kind |-> "data", data |-> <<>>]}
           [] net = "reset" -> {[kind |-> "error", data |-> <<>>]}
           [] net = "open" ->
                IF conn[InUse].timeout # None /\ timeouts < MaxTimeouts
                THEN {[kind |-> "timeout", data |-> <<>>]}
                ELSE {}

(* the exception recv raises for an outcome, or None *)
recv_raises(outcome) ==
    CASE outcome.kind = "timeout" -> Some(socket_timeout)
      [] outcome.kind = "error" -> Some(socket_error)
      [] outcome.kind = "data" -> None

Consume(outcome) == SubSeq(inbuf, Len(outcome.data) + 1, Len(inbuf))

----------------------------------------------------------------------------
(* Outcome of a call *)

NoResult == [kind |-> "none", exc |-> None, value |-> <<>>]
Return(value) == [kind |-> "return", exc |-> None, value |-> value]
Raise(exc) == [kind |-> "raise", exc |-> Some(exc), value |-> <<>>]

Init ==
    /\ pc = "idle"
    /\ op = "none"
    /\ tokens = <<>>
    /\ alert = <<>>
    /\ payload = None
    /\ identifier = 0
    /\ expiration = None
    /\ config \in Configs
    /\ index = 0
    /\ conn = [c \in {"own", "supplied"} |-> NoConnection]
    /\ net = "open"
    /\ inbuf = <<>>
    /\ toSend = <<>>
    /\ written = <<>>
    /\ original_timeout = None
    /\ expired_tokens = <<>>
    /\ header_data = None
    /\ raised = None
    /\ result = NoResult
    /\ opens = 0
    /\ closes = 0
    /\ reads = 0
    /\ timeouts = 0
    /\ checks = 0
    /\ builds = 0
    /\ writes = 0
    /\ response = None
    /\ entry_timeout = None
    /\ data = None
    /\ length = 0
    /\ recv_exc = None
    /\ stream = <<>>

----------------------------------------------------------------------------
(* The caller *)

CallSend ==
    /\ pc = "idle"
    /\ \E token \in SendTokens, a \in Alerts, p \in Payloads,
          ident \in Identifiers, e \in Expirations :
        /\ tokens' = <<token>>
        /\ alert' = a
        /\ payload' = p
        /\ identifier' = ident
        /\ expiration' = e
    /\ \/ UNCHANGED <<conn, net>>
       \/ \E t \in DefaultTimeouts, n \in {"open", "closed", "reset"} :
            /\ conn' = [conn EXCEPT !["supplied"] = [state |-> "open", timeout |-> t]]
            /\ net' = n
    /\ op' = "send"
    /\ pc' = "send"
    /\ UNCHANGED <<config, index, inbuf, toSend, written, original_timeout,
                   expired_tokens, header_data, raised, result, opens, closes,
                   reads, timeouts, checks, builds, writes, response,
                   entry_timeout, data, length,
                   recv_exc, stream>>

CallSendBulk ==
    /\ pc = "idle"
    /\ \E ts \in SeqsUpTo(BulkTokens, MaxTokens), a \in Alerts, p \in Payloads :
        /\ tokens' = ts
        /\ alert' = a
        /\ payload' = p
    /\ op' = "send_bulk"
    /\ pc' = "send_bulk"
    /\ UNCHANGED <<identifier, expiration, config, index, conn, net, inbuf,
                   toSend, written, original_timeout, expired_tokens,
                   header_data, raised, result, opens, closes, reads, timeouts,
                   checks, builds, writes, response, entry_timeout, data, length,
                   recv_exc, stream>>

CallGetExpiredTokens ==
    /\ pc = "idle"
    /\ op' = "get_expired_tokens"
    /\ pc' = "get_expired_tokens"
    /\ UNCHANGED <<tokens, alert, payload, identifier, expiration, config,
                   index, conn, net, inbuf, toSend, written, original_timeout,
                   expired_tokens, header_data, raised, result, opens, closes,
                   reads, timeouts, checks, builds, writes, response,
                   entry_timeout, data, length,
                   recv_exc, stream>>

----------------------------------------------------------------------------
(* send *)

(* lines 273-300: validation, frame, then the write on the supplied        *)
(* connection or the opening of a fresh one                                *)
SendBody ==
    /\ pc = "send"
    /\ LET token == tokens[1]
           err == send_raises(token, payload, alert, config)
       IN
        /\ builds' = builds + send_builds(token, payload)
        /\ IF err # None
           THEN /\ result' = Raise(err[1])
                /\ pc' = "done"
                /\ UNCHANGED <<conn, written, writes, opens>>
           ELSE IF connection_supplied(conn["supplied"])
           THEN \E ok \in WriteOutcomes, now \in Times :
                /\ writes' = writes + 1
                /\ written' =
                     IF ok
                     THEN Append(written,
                            [to |-> "supplied",
                             frame |-> send_frame(token, payload, alert, config,
                                                  identifier, expiration, now)])
                     ELSE written
                /\ result' = IF ok THEN Return(<<>>) ELSE Raise(socket_error)
                /\ pc' = "done"
                /\ UNCHANGED <<conn, opens>>
           ELSE \E connected \in BOOLEAN, t \in DefaultTimeouts :
                LET e == create_socket_raises(config.APNS_CERTIFICATE, connected)
                IN  /\ UNCHANGED <<written, writes>>
                    /\ IF e # None
                       THEN /\ result' = Raise(e[1])
                            /\ pc' = "done"
                            /\ UNCHANGED <<conn, opens>>
                       ELSE /\ conn' = [conn EXCEPT
                                          !["own"] = [state |-> "open", timeout |-> t]]
                            /\ opens' = opens + 1
                            /\ pc' = "send_write"
                            /\ UNCHANGED result
    /\ UNCHANGED <<op, tokens, alert, payload, identifier, expiration, config,
                   index, net, inbuf, toSend, original_timeout, expired_tokens,
                   header_data, raised, closes, reads, timeouts, checks,
                   response, entry_timeout, data, length,
                   recv_exc, stream>>

(* line 301 *)
SendWrite ==
    /\ pc = "send_write"
    /\ \E ok \in WriteOutcomes, now \in Times :
        /\ writes' = writes + 1
        /\ IF ok
           THEN /\ written' =
                     Append(written,
                        [to |-> "own",
                         frame |-> send_frame(tokens[1], payload, alert, config,
                                              identifier, expiration, now)])
                /\ pc' = "check_errors"
                /\ UNCHANGED raised
           ELSE /\ raised' = Some(socket_error)
                /\ pc' = "exit"
                /\ UNCHANGED written
    /\ UNCHANGED <<op, tokens, alert, payload, identifier, expiration, config,
                   index, conn, net, inbuf, toSend, original_timeout,
                   expired_tokens, header_data, result, opens, closes, reads,
                   timeouts, checks, builds, response, entry_timeout, data, length,
                   recv_exc, stream>>

----------------------------------------------------------------------------
(* check_errors *)

(* the status test placed before the command test *)
decode_raises_status_first(received) ==
    IF received = <<>> THEN None
    ELSE IF Len(received) # 6 THEN Some(struct_error)
    ELSE LET r == unpack_BBI(received)
         IN  IF r.status # 0
             THEN Some(raise_apns_server_error(r.status, r.identifier))
             ELSE IF r.command # APNS_ERROR_RESPONSE_COMMAND
             THEN Some(APNSError("Error response command must be 8"))
             ELSE None

(* the decoding without the if data: test of line 173 *)
decode_raises_unguarded(received) ==
    IF Len(received) # 6 THEN Some(struct_error)
    ELSE LET r == unpack_BBI(received)
         IN  IF r.command # APNS_ERROR_RESPONSE_COMMAND
             THEN Some(APNSError("Error response command must be 8"))
             ELSE IF r.status # 0
             THEN Some(raise_apns_server_error(r.status, r.identifier))
             ELSE None

(* lines 173-183: what the body of the try raises for the data read *)
decode_raises(received) ==
    IF received = <<>> THEN None
    ELSE IF Len(received) # 6 THEN Some(struct_error)
    ELSE LET r == unpack_BBI(received)
         IN  IF r.command # APNS_ERROR_RESPONSE_COMMAND
             THEN Some(APNSError("Error response command must be 8"))
             ELSE IF r.status # 0
             THEN Some(raise_apns_server_error(r.status, r.identifier))
             ELSE None

(* check_errors with a bare except: every error of the read is dropped *)
check_errors_raises_swallow_all(outcome) ==
    CASE outcome.kind = "timeout" -> None
      [] outcome.kind = "error" -> None
      [] outcome.kind = "data" -> decode_raises(outcome.data)

(* check_errors without the except socket.timeout clause *)
check_errors_raises_timeout(outcome) ==
    CASE outcome.kind = "timeout" -> Some(socket_error)
      [] outcome.kind = "error" -> Some(socket_error)
      [] outcome.kind = "data" -> decode_raises(outcome.data)

(* lines 171-190: what leaves the try statement for an outcome of recv *)
check_errors_raises(outcome) ==
    CASE outcome.kind = "timeout" -> None
      [] outcome.kind = "error" -> Some(socket_error)
      [] outcome.kind = "data" -> decode_raises(outcome.data)

(* the restoration written after the try statement instead of in a finally *)
(* clause: skipped when the body raises                                    *)
restore_unless_raised(original, current, exc) ==
    IF exc # None THEN current ELSE original

(* lines 191-192: the timeout the finally clause leaves on the connection *)
finally_timeout(original, current, exc) == original

(* check_errors without the early return *)
timeout_never_disabled(timeout) == FALSE

(* line 163 *)
timeout_disabled(timeout) == timeout = None

(* lines 161-170 *)
CheckErrorsEnter ==
    /\ pc = "check_errors"
    /\ checks' = checks + 1
    /\ entry_timeout' = conn["own"].timeout
    /\ IF timeout_disabled(config.APNS_ERROR_TIMEOUT)
       THEN /\ pc' = "exit"
            /\ UNCHANGED <<conn, original_timeout>>
       ELSE /\ original_timeout' = conn["own"].timeout
            /\ conn' = [conn EXCEPT !["own"].timeout = config.APNS_ERROR_TIMEOUT]
            /\ pc' = "check_recv"
    /\ UNCHANGED <<op, tokens, alert, payload, identifier, expiration, config,
                   index, net, inbuf, toSend, written, expired_tokens,
                   header_data, raised, result, opens, closes, reads, timeouts,
                   builds, writes, response, data, length,
                   recv_exc, stream>>

(* lines 171-192 *)
CheckErrorsRecv ==
    /\ pc = "check_recv"
    /\ \E outcome \in RecvOutcomes(6) :
        /\ reads' = reads + 1
        /\ timeouts' = IF outcome.kind = "timeout" THEN timeouts + 1 ELSE timeouts
        /\ inbuf' = Consume(outcome)
        /\ data' = IF outcome.kind = "data" THEN Some(outcome.data) ELSE None
        /\ recv_exc' = recv_raises(outcome)
        /\ length' = 6
        /\ raised' = check_errors_raises(outcome)
        /\ conn' = [conn EXCEPT !["own"].timeout =
                      finally_timeout(original_timeout, conn["own"].timeout,
                                      check_errors_raises(outcome))]
    /\ pc' = "exit"
    /\ UNCHANGED <<op, tokens, alert, payload, identifier, expiration, config,
                   index, net, toSend, written, original_timeout,
                   expired_tokens, header_data, result, opens, closes, checks,
                   builds, writes, response, entry_timeout,
                   stream>>

(* a close() placed after the block instead of a with statement: skipped   *)
(* when the block raises                                                   *)
closing_unless_raised(state, exc) == IF exc # None THEN state ELSE "closed"

(* contextlib.closing, lines 300, 311, 326: the state of the connection    *)
(* after the with block, left normally or by an exception                  *)
closing(state, exc) == "closed"

(* leaving the with closing(...) block: close(), then return or re-raise *)
Exit ==
    /\ pc = "exit"
    /\ conn' = [conn EXCEPT !["own"].state = closing(conn["own"].state, raised)]
    /\ closes' = IF closing(conn["own"].state, raised) = "closed"
                 THEN closes + 1 ELSE closes
    /\ result' = IF raised # None THEN Raise(raised[1])
                 ELSE IF op = "get_expired_tokens" THEN Return(expired_tokens)
                 ELSE Return(<<>>)
    /\ pc' = "done"
    /\ UNCHANGED <<op, tokens, alert, payload, identifier, expiration, config,
                   index, net, inbuf, toSend, written, original_timeout,
                   expired_tokens, header_data, raised, opens, reads, timeouts,
                   checks, builds, writes, response, entry_timeout, data, length,
                   recv_exc, stream>>

----------------------------------------------------------------------------
(* send_bulk *)

(* an early return for an empty batch: no error check *)
bulk_next_pc_skip_empty(tokens_, index_) ==
    IF Len(tokens_) = 0 THEN "exit"
    ELSE IF index_ = Len(tokens_) THEN "check_errors" ELSE "bulk_loop"

(* lines 312 and 321: the for loop goes on while tokens remain, then       *)
(* check_errors is called                                                  *)
bulk_next_pc(tokens_, index_) ==
    IF index_ = Len(tokens_) THEN "check_errors" ELSE "bulk_loop"

(* lines 307-311 *)
BulkOpen ==
    /\ pc = "send_bulk"
    /\ payload' = IF payload = None THEN Some(create_payload(alert)) ELSE payload
    /\ builds' = IF payload = None THEN builds + 1 ELSE builds
    /\ \E connected \in BOOLEAN, t \in DefaultTimeouts :
        LET e == create_socket_raises(config.APNS_CERTIFICATE, connected)
        IN  IF e # None
            THEN /\ result' = Raise(e[1])
                 /\ pc' = "done"
                 /\ UNCHANGED <<conn, opens, index>>
            ELSE /\ conn' = [conn EXCEPT
                               !["own"] = [state |-> "open", timeout |-> t]]
                 /\ opens' = opens + 1
                 /\ index' = 0
                 /\ pc' = bulk_next_pc(tokens, 0)
                 /\ UNCHANGED result
    /\ UNCHANGED <<op, tokens, alert, identifier, expiration, config, net,
                   inbuf, toSend, written, original_timeout, expired_tokens,
                   header_data, raised, closes, reads, timeouts, checks,
                   writes, response, entry_timeout, data, length,
                   recv_exc, stream>>

(* enumerate(tokens, 1): positions counted from one *)
enumerate_identifier_from_one(position) == position + 1

(* line 312: the identifier enumerate() gives the token at a position *)
enumerate_identifier(position) == position

(* lines 312-319: one iteration, the nested send on the batch connection *)
BulkSend ==
    /\ pc = "bulk_loop"
    /\ LET token == tokens[index + 1]
           err == send_raises(token, payload, alert, config)
       IN
        /\ builds' = builds + send_builds(token, payload)
        /\ IF err # None
           THEN /\ raised' = err
                /\ pc' = "exit"
                /\ UNCHANGED <<written, writes, index>>
           ELSE \E ok \in WriteOutcomes, now \in Times :
                /\ writes' = writes + 1
                /\ IF ok
                   THEN /\ written' =
                             Append(written,
                                [to |-> "own",
                                 frame |-> send_frame(token, payload, alert,
                                                      config, enumerate_identifier(index),
                                                      None, now)])
                        /\ index' = index + 1
                        /\ pc' = bulk_next_pc(tokens, index + 1)
                        /\ UNCHANGED raised
                   ELSE /\ raised' = Some(socket_error)
                        /\ pc' = "exit"
                        /\ UNCHANGED <<written, index>>
    /\ UNCHANGED <<op, tokens, alert, payload, identifier, expiration, config,
                   conn, net, inbuf, toSend, original_timeout, expired_tokens,
                   header_data, result, opens, closes, reads, timeouts, checks,
                   response, entry_timeout, data, length,
                   recv_exc, stream>>

----------------------------------------------------------------------------
(* get_expired_tokens, receive_feedback *)

HexChars ==
    <<"0", "1", "2", "3", "4", "5", "6", "7", "8", "9", "a", "b", "c", "d", "e", "f">>

(* bytes.encode('hex') *)
encode_hex(bytes) ==
    [k \in 1..(2 * Len(bytes)) |->
        IF k % 2 = 1 THEN HexChars[(bytes[(k + 1) \div 2] \div 16) + 1]
        ELSE HexChars[(bytes[k \div 2] % 16) + 1]]

(* read_and_unpack, lines 216-224, on the data recv returned: the error    *)
(* unpack_from raises on a buffer shorter than the format                  *)
read_and_unpack_raises(received, size) ==
    IF received # <<>> /\ Len(received) < size THEN Some(struct_error) ELSE None

(* lines 326-327: the feedback connection; the service starts sending *)
FeedbackOpen ==
    /\ pc = "get_expired_tokens"
    /\ \E connected \in BOOLEAN, t \in DefaultTimeouts, bytes \in FeedbackStreams :
        LET e == create_socket_raises(config.APNS_CERTIFICATE, connected)
        IN  IF e # None
            THEN /\ result' = Raise(e[1])
                 /\ pc' = "done"
                 /\ UNCHANGED <<conn, opens, toSend, stream>>
            ELSE /\ conn' = [conn EXCEPT
                               !["own"] = [state |-> "open", timeout |-> t]]
                 /\ opens' = opens + 1
                 /\ toSend' = bytes
                 /\ stream' = bytes
                 /\ pc' = "fb_header"
                 /\ UNCHANGED result
    /\ UNCHANGED <<op, tokens, alert, payload, identifier, expiration, config,
                   index, net, inbuf, written, original_timeout,
                   expired_tokens, header_data, raised, closes, reads,
                   timeouts, checks, builds, writes, response, entry_timeout, data, length,
                   recv_exc>>

(* a read timeout that ends the drain, as a break would *)
after_timeout_break(position) == "exit"

(* lines 252-254: except socket.timeout: pass; the while loop goes on with *)
(* the next header read, whichever read timed out                          *)
after_timeout(position) == "fb_header"

(* lines 235-241 and 250-258: the header read of one iteration *)
FeedbackHeader ==
    /\ pc = "fb_header"
    /\ \E outcome \in RecvOutcomes(6) :
        /\ reads' = reads + 1
        /\ timeouts' = IF outcome.kind = "timeout" THEN timeouts + 1 ELSE timeouts
        /\ inbuf' = Consume(outcome)
        /\ data' = IF outcome.kind = "data" THEN Some(outcome.data) ELSE None
        /\ recv_exc' = recv_raises(outcome)
        /\ length' = 6
        /\ CASE outcome.kind = "timeout" ->
                  /\ pc' = after_timeout(pc)
                  /\ UNCHANGED <<header_data, raised>>
             [] outcome.kind = "error" ->
                  /\ raised' = Some(socket_error)
                  /\ pc' = "exit"
                  /\ UNCHANGED header_data
             [] outcome.kind = "data" ->
                  IF read_and_unpack_raises(outcome.data, 6) # None
                  THEN /\ raised' = read_and_unpack_raises(outcome.data, 6)
                       /\ pc' = "exit"
                       /\ UNCHANGED header_data
                  ELSE IF outcome.data = <<>>
                  THEN /\ header_data' = None
                       /\ pc' = "exit"
                       /\ UNCHANGED raised
                  ELSE /\ header_data' = Some(unpack_LH(outcome.data))
                       /\ pc' = "fb_token"
                       /\ UNCHANGED raised
    /\ UNCHANGED <<op, tokens, alert, payload, identifier, expiration, config,
                   index, conn, net, toSend, written, original_timeout,
                   expired_tokens, result, opens, closes, checks, builds,
                   writes, response, entry_timeout,
                   stream>>

(* lines 243-249 and 252-258: the token read of one iteration *)
FeedbackToken ==
    /\ pc = "fb_token"
    /\ LET timestamp == header_data[1].timestamp
           token_length == header_data[1].token_length
       IN  \E outcome \in RecvOutcomes(token_length) :
        /\ reads' = reads + 1
        /\ timeouts' = IF outcome.kind = "timeout" THEN timeouts + 1 ELSE timeouts
        /\ inbuf' = Consume(outcome)
        /\ data' = IF outcome.kind = "data" THEN Some(outcome.data) ELSE None
        /\ recv_exc' = recv_raises(outcome)
        /\ length' = token_length
        /\ CASE outcome.kind = "timeout" ->
                  /\ pc' = after_timeout(pc)
                  /\ UNCHANGED <<expired_tokens, raised>>
             [] outcome.kind = "error" ->
                  /\ raised' = Some(socket_error)
                  /\ pc' = "exit"
                  /\ UNCHANGED expired_tokens
             [] outcome.kind = "data" ->
                  IF read_and_unpack_raises(outcome.data, token_length) # None
                  THEN /\ raised' = read_and_unpack_raises(outcome.data, token_length)
                       /\ pc' = "exit"
                       /\ UNCHANGED expired_tokens
                  ELSE IF outcome.data = <<>>
                  THEN /\ pc' = "fb_header"
                       /\ UNCHANGED <<expired_tokens, raised>>
                  ELSE /\ expired_tokens' =
                            Append(expired_tokens,
                                   <<encode_hex(outcome.data), timestamp>>)
                       /\ pc' = "fb_header"
                       /\ UNCHANGED raised
    /\ UNCHANGED <<op, tokens, alert, payload, identifier, expiration, config,
                   index, conn, net, toSend, written, original_timeout,
                   header_data, result, opens, closes, checks, builds, writes,
                   response, entry_timeout,
                   stream>>

----------------------------------------------------------------------------
(* The peer: acts while the call still has socket operations ahead *)

PeerActive ==
    /\ pc \in {"send_write", "check_errors", "check_recv", "bulk_loop",
               "fb_header", "fb_token"}
    /\ conn["own"].state = "open"

(* the push gateway sends an error response *)
PeerRespond ==
    /\ PeerActive
    /\ op \in {"send", "send_bulk"}
    /\ net = "open"
    /\ response = None
    /\ \E r \in Responses :
        /\ response' = Some([command |-> r.command, status |-> r.status,
                             identifier |-> r.identifier,
                             seen |-> r.identifier < Len(written)])
        /\ toSend' = EncodeResponse(r)
    /\ UNCHANGED <<pc, op, tokens, alert, payload, identifier, expiration,
                   config, index, conn, net, inbuf, written, original_timeout,
                   expired_tokens, header_data, raised, result, opens, closes,
                   reads, timeouts, checks, builds, writes, entry_timeout, data, length,
                   recv_exc, stream>>

(* some of the bytes under way arrive *)
PeerDeliver ==
    /\ PeerActive
    /\ net = "open"
    /\ toSend # <<>>
    /\ \E n \in 1..Len(toSend) :
        /\ inbuf' = inbuf \o SubSeq(toSend, 1, n)
        /\ toSend' = SubSeq(toSend, n + 1, Len(toSend))
    /\ UNCHANGED <<pc, op, tokens, alert, payload, identifier, expiration,
                   config, index, conn, net, written, original_timeout,
                   expired_tokens, header_data, raised, result, opens, closes,
                   reads, timeouts, checks, builds, writes, response,
                   entry_timeout, data, length,
                   recv_exc, stream>>

(* the peer closes after everything it sent has arrived *)
PeerClose ==
    /\ PeerActive
    /\ net = "open"
    /\ toSend = <<>>
    /\ net' = "closed"
    /\ UNCHANGED <<pc, op, tokens, alert, payload, identifier, expiration,
                   config, index, conn, inbuf, toSend, written,
                   original_timeout, expired_tokens, header_data, raised,
                   result, opens, closes, reads, timeouts, checks, builds,
                   writes, response, entry_timeout, data, length,
                   recv_exc, stream>>

(* the connection is reset: what was under way or unread is lost *)
PeerReset ==
    /\ PeerActive
    /\ net = "open"
    /\ net' = "reset"
    /\ inbuf' = <<>>
    /\ toSend' = <<>>
    /\ UNCHANGED <<pc, op, tokens, alert, payload, identifier, expiration,
                   config, index, conn, written, original_timeout,
                   expired_tokens, header_data, raised, result, opens, closes,
                   reads, timeouts, checks, builds, writes, response,
                   entry_timeout, data, length,
                   recv_exc, stream>>

----------------------------------------------------------------------------

Next ==
    \/ CallSend
    \/ CallSendBulk
    \/ CallGetExpiredTokens
    \/ SendBody
    \/ SendWrite
    \/ CheckErrorsEnter
    \/ CheckErrorsRecv
    \/ Exit
    \/ BulkOpen
    \/ BulkSend
    \/ FeedbackOpen
    \/ FeedbackHeader
    \/ FeedbackToken
    \/ PeerRespond
    \/ PeerDeliver
    \/ PeerClose
    \/ PeerReset

Spec == Init /\ [][Next]_vars

(* the interpreter goes on executing the call: a step of the feedback loop *)
(* or the exit of the with block that can be taken is taken                *)
FairSpec ==
    /\ Spec
    /\ WF_vars(FeedbackHeader)
    /\ WF_vars(FeedbackToken)
    /\ WF_vars(Exit)

----------------------------------------------------------------------------
(* Types *)

TypeOK ==
    /\ pc \in {"idle", "send", "send_write", "check_errors", "check_recv",
               "exit", "send_bulk", "bulk_loop", "get_expired_tokens",
               "fb_header", "fb_token", "done"}
    /\ op \in {"none", "send", "send_bulk", "get_expired_tokens"}
    /\ net \in {"open", "closed", "reset"}
    /\ index \in 0..Len(tokens)
    /\ closes <= opens

----------------------------------------------------------------------------
(* Properties *)

PushCall == op \in {"send", "send_bulk"}

(* the exception leaving the call, or None *)
Outcome == IF pc = "done" THEN result.exc ELSE raised

(* the identifier item of a written frame: the four bytes before the       *)
(* expiration and priority items                                           *)
FrameIdentifier(frame) ==
    unpack_uint(SubSeq(frame, Len(frame) - 14, Len(frame) - 11))

AllTokensAccepted ==
    \A k \in 1..Len(tokens) : send_raises(tokens[k], payload, alert, config) = None

(* C1: in send_bulk the k-th frame written carries identifier k-1 and goes *)
(* to the batch connection; there are never more writes than tokens;       *)
(* check_errors is entered at most once, and only after all N frames are   *)
(* written; a read happens only inside that check_errors, hence after the  *)
(* last write; a call that wrote all N frames, or that returned, has made  *)
(* exactly N writes and exactly one check_errors call.                     *)
C1_BulkWritesThenOneCheck ==
    op = "send_bulk" =>
        /\ \A k \in 1..Len(written) :
              /\ written[k].to = "own"
              /\ FrameIdentifier(written[k].frame) = k - 1
        /\ writes <= Len(tokens)
        /\ checks <= 1
        /\ (checks = 1 => writes = Len(tokens) /\ Len(written) = Len(tokens))
        /\ (reads > 0 => checks = 1)
        /\ (pc = "done" /\ opens = 1 /\ Len(written) = Len(tokens) => checks = 1)
        /\ (pc = "done" /\ result.kind = "return" =>
                checks = 1 /\ Len(written) = Len(tokens))

C1_Witness ==
    /\ op = "send_bulk"
    /\ pc = "done"
    /\ Len(tokens) >= 2
    /\ Len(written) = Len(tokens)
    /\ checks = 1
    /\ reads = 1

(* C2: when send or send_bulk raises a validation error (invalid token or  *)
(* payload over the maximum), no connection has been opened and no write   *)
(* has been made.                                                          *)
C2_ValidationBeforeIO ==
    (/\ PushCall
     /\ Outcome \in {Some(APNSError("Invalid token format")), Some(APNSDataOverflow)})
    => (opens = 0 /\ writes = 0)

(* C3: send_bulk with an enabled error timeout and tokens that all pass    *)
(* validation: when the gateway has answered with an error response for a  *)
(* written position k (command 8, non-zero status), the response has       *)
(* arrived and the gateway has closed, all before the error read, the call *)
(* ends by raising the server error with that status and identifier k.     *)
C3_FirstFailureReported ==
    (/\ op = "send_bulk"
     /\ pc = "done"
     /\ opens = 1
     /\ config.APNS_ERROR_TIMEOUT # None
     /\ AllTokensAccepted
     /\ response # None
     /\ response[1].command = APNS_ERROR_RESPONSE_COMMAND
     /\ response[1].status # 0
     /\ response[1].seen
     /\ net = "closed")
    => result = Raise(raise_apns_server_error(response[1].status,
                                              response[1].identifier))

(* C4: after check_errors ran with an enabled timeout, whatever it read    *)
(* and whether it returned or raised, the connection has the timeout it    *)
(* had when check_errors was entered.                                      *)
C4_TimeoutRestored ==
    (/\ PushCall
     /\ checks = 1
     /\ config.APNS_ERROR_TIMEOUT # None
     /\ pc \in {"exit", "done"})
    => conn["own"].timeout = entry_timeout

C4_Witness ==
    /\ pc = "exit"
    /\ checks = 1
    /\ reads = 1
    /\ raised # None
    /\ raised[1].type = "APNSServerError"
    /\ entry_timeout # config.APNS_ERROR_TIMEOUT

(* C5: when a call has returned or raised, the connection it opened is     *)
(* closed: there are as many close() calls as connections opened.          *)
C5_OpenedConnectionsClosed ==
    pc = "done" => (conn["own"].state # "open" /\ closes = opens)

C5_Witness ==
    /\ pc = "done"
    /\ opens = 1
    /\ closes = 1
    /\ result.kind = "raise"
    /\ conn["own"].state = "closed"

(* C6: when the error read of check_errors timed out, check_errors raises  *)
(* nothing and send or send_bulk returns normally.                         *)
C6_TimeoutIsSuccess ==
    (PushCall /\ checks = 1 /\ reads = 1 /\ timeouts = 1)
    => (/\ pc \in {"exit", "done"}
        /\ raised = None
        /\ (pc = "done" => result = Return(<<>>)))

C6_Witness ==
    /\ op = "send_bulk"
    /\ pc = "done"
    /\ timeouts = 1
    /\ writes >= 1
    /\ result = Return(<<>>)

(* C7: with APNS_ERROR_TIMEOUT = None, check_errors makes no read and      *)
(* leaves the timeout of the connection alone, and the call returns        *)
(* normally whatever the gateway has sent.                                 *)
C7_DisabledTimeoutNoRead ==
    (PushCall /\ checks = 1 /\ config.APNS_ERROR_TIMEOUT = None)
    => (/\ reads = 0
        /\ conn["own"].timeout = entry_timeout
        /\ pc \in {"exit", "done"}
        /\ raised = None
        /\ (pc = "done" => result = Return(<<>>)))

C7_Witness ==
    /\ PushCall
    /\ pc = "done"
    /\ checks = 1
    /\ config.APNS_ERROR_TIMEOUT = None
    /\ response # None
    /\ response[1].status # 0
    /\ Len(inbuf) = 6
    /\ result = Return(<<>>)

(* C8: when check_errors read six bytes: a command byte other than 8       *)
(* raises the protocol error whatever the status byte; command byte 8 with *)
(* status byte 0 raises nothing.                                           *)
C8_CommandBeforeStatus ==
    (PushCall /\ data # None /\ Len(data[1]) = 6)
    => (/\ (data[1][1] # 8 =>
                Outcome = Some(APNSError("Error response command must be 8")))
        /\ (data[1][1] = 8 /\ data[1][2] = 0 => Outcome = None))

C8_Witness ==
    /\ PushCall
    /\ pc = "done"
    /\ data # None
    /\ Len(data[1]) = 6
    /\ data[1][1] # 8
    /\ data[1][2] # 0
    /\ result.kind = "raise"

(* C9: when check_errors read six bytes with command byte 8 and a non-zero *)
(* status byte, it raises the server error whose status and identifier are *)
(* the ones the gateway encoded in the response.                           *)
C9_ServerErrorCarriesIdentifier ==
    (PushCall /\ data # None /\ Len(data[1]) = 6 /\ data[1][1] = 8 /\ data[1][2] # 0)
    => (/\ Outcome # None
        /\ Outcome[1].type = "APNSServerError"
        /\ Outcome[1].status = Some(response[1].status)
        /\ Outcome[1].status = Some(data[1][2])
        /\ Outcome[1].identifier = Some(response[1].identifier))

C9_Witness ==
    /\ PushCall
    /\ pc = "done"
    /\ data = Some(<<8, 8, 0, 0, 0, 1>>)
    /\ result.kind = "raise"
    /\ result.exc[1].identifier = Some(1)
    /\ result.exc[1].status = Some(8)

(* C10: in get_expired_tokens, when a read returned fewer bytes than asked *)
(* for (some, or none), the drain stops there: nothing is raised and the   *)
(* records read so far are returned.                                       *)
C10_ShortReadEndsStream ==
    (op = "get_expired_tokens" /\ data # None /\ Len(data[1]) < length)
    => (/\ pc \in {"exit", "done"}
        /\ Outcome = None
        /\ (pc = "done" => result = Return(expired_tokens)))


(* the records a stream of whole records must yield *)
ExpectedRecords(records) ==
    [k \in 1..Len(records) |->
        <<encode_hex(records[k].token), records[k].timestamp>>]

WellFormedRecords == {r \in FeedbackRecords : r.token # <<>>}

(* C11: when the feedback stream is k whole records with non-empty tokens  *)
(* followed by end-of-stream (the connection is not reset), a finished     *)
(* get_expired_tokens has returned exactly those k (hex token, timestamp)  *)
(* pairs in stream order; none for k = 0.                                  *)
C11_WellFormedStreamReturned ==
    \A records \in SeqsUpTo(WellFormedRecords, MaxRecords) :
        (/\ op = "get_expired_tokens"
         /\ pc = "done"
         /\ opens = 1
         /\ stream = EncodeStream(records)
         /\ net # "reset")
        => result = Return(ExpectedRecords(records))


(* what propagation means, given the reads whose exception may be dropped: *)
(* a failed write, a recv exception that may not be dropped, a short read  *)
(* handed to struct, a failed open and a protocol or server error all      *)
(* leave the call as its exception                                         *)
ErrorsPropagate(droppable) ==
    /\ (writes > Len(written) =>
            pc \in {"exit", "done"} /\ Outcome = Some(socket_error))
    /\ (recv_exc # None /\ ~droppable =>
            pc \in {"exit", "done"} /\ Outcome = recv_exc)
    /\ (data # None /\ data[1] # <<>> /\ Len(data[1]) < length =>
            pc \in {"exit", "done"} /\ Outcome = Some(struct_error))
    /\ (pc = "done" /\ opens = 0 /\ conn["supplied"].state = "none" =>
            result.kind = "raise")
    /\ (PushCall /\ data # None /\ Len(data[1]) = 6
          /\ (data[1][1] # 8 \/ data[1][2] # 0) =>
            pc \in {"exit", "done"} /\ Outcome # None)

(* C12 as stated: only the read timeout of check_errors is dropped; every  *)
(* other error of an open, write, read or decode step, the read timeouts   *)
(* of receive_feedback included, propagates to the caller.                 *)
C12_OnlyCheckErrorsTimeoutDropped ==
    ErrorsPropagate(PushCall /\ recv_exc = Some(socket_timeout))

(* C12 amended: the errors dropped are the read timeouts, in check_errors  *)
(* and in the header and token reads of receive_feedback (after which the  *)
(* drain goes on with nothing raised); every other error of an open,       *)
(* write, read or decode step propagates to the caller.                    *)
C12_OnlyReadTimeoutsDropped ==
    /\ ErrorsPropagate(recv_exc = Some(socket_timeout))
    /\ (recv_exc = Some(socket_timeout) =>
            /\ raised = None
            /\ (PushCall => pc \in {"exit", "done"})
            /\ (op = "get_expired_tokens" => pc = "fb_header"))

C12_Witness ==
    /\ op = "get_expired_tokens"
    /\ pc = "fb_header"
    /\ reads >= 1
    /\ recv_exc = Some(socket_timeout)
    /\ raised = None


(* reading a frame back: bytes a..b (absent bytes read as -1), and the     *)
(* first n items from a position on, each an id byte, a two-byte length    *)
(* and that many bytes of data                                             *)
Slice(frame, a, b) ==
    [k \in 1..(b - a + 1) |->
        IF a + k - 1 \in 1..Len(frame) THEN frame[a + k - 1] ELSE -1]

RECURSIVE ParseItems(_, _, _)
ParseItems(frame, pos, n) ==
    IF n = 0 \/ pos + 2 > Len(frame) THEN <<>>
    ELSE LET len == unpack_uint(Slice(frame, pos + 1, pos + 2))
         IN  <<[id |-> frame[pos], length |-> len,
                data |-> Slice(frame, pos + 3, pos + 2 + len),
                next |-> pos + 3 + len]>>
             \o ParseItems(frame, pos + 3 + len, n - 1)

(* the token and payload the k-th written frame was made from *)
WrittenToken(k) == IF op = "send" THEN tokens[1] ELSE tokens[k]
WrittenPayload == send_payload(payload, alert)

(* C13: every frame written starts with command byte 2 and a four-byte     *)
(* length, followed by exactly five items with ids 1..5 holding the token  *)
(* bytes, the payload, a 4-byte identifier, a 4-byte expiration and a      *)
(* 1-byte priority; each item length is the length of its data alone, and  *)
(* the declared length is the sum of the item headers and data, that is    *)
(* 15 + token length + payload length + 4 + 4 + 1.                         *)
C13_FrameLayout ==
    \A k \in 1..Len(written) :
        LET frame == written[k].frame
            declared == unpack_uint(Slice(frame, 2, 5))
            items == ParseItems(frame, 6, 5)
            token_bin == unhexlify(WrittenToken(k))
        IN  /\ frame[1] = 2
            /\ Len(items) = 5
            /\ items[5].next = Len(frame) + 1
            /\ \A n \in 1..5 :
                  /\ items[n].id = n
                  /\ -1 \notin {items[n].data[j] : j \in 1..Len(items[n].data)}
            /\ items[1].data = token_bin
            /\ items[2].data = WrittenPayload
            /\ items[3].length = 4
            /\ items[4].length = 4
            /\ items[5].length = 1
            /\ items[5].data = <<DEFAULT_PRIORITY>>
            /\ declared = Len(frame) - 5
            /\ declared = 15 + Len(token_bin) + Len(WrittenPayload) + 4 + 4 + 1

C13_Witness ==
    /\ op = "send"
    /\ Len(written) = 1
    /\ identifier = 258
    /\ expiration = None
    /\ unpack_uint(ParseItems(written[1].frame, 6, 5)[3].data) = 258


(* C14: in send with a valid token, a payload longer than                  *)
(* APNS_MAX_NOTIFICATION_SIZE raises APNSDataOverflow with nothing opened  *)
(* or written; a payload of at most that length, the maximum itself        *)
(* included, never raises it, its frame is the one written when the call   *)
(* returns, and is written whenever the supplied connection is up.  The    *)
(* length compared is that of the payload, every frame being longer than   *)
(* the maximum.                                                            *)
C14_MaxSizeBoundary ==
    (op = "send" /\ pc # "send" /\ is_valid_token(tokens[1])) =>
        LET p == send_payload(payload, alert)
            max == config.APNS_MAX_NOTIFICATION_SIZE
        IN  /\ (Len(p) > max =>
                    /\ pc = "done"
                    /\ result = Raise(APNSDataOverflow)
                    /\ writes = 0
                    /\ opens = 0
                    /\ written = <<>>)
            /\ (Len(p) <= max =>
                    /\ Outcome # Some(APNSDataOverflow)
                    /\ (pc = "done" /\ result.kind = "return" =>
                            /\ Len(written) = 1
                            /\ Len(written[1].frame) > max
                            /\ ParseItems(written[1].frame, 6, 5)[2].data = p)
                    /\ (conn["supplied"].state = "open" /\ net = "open" =>
                            Len(written) = 1))

C14_Witness ==
    /\ op = "send"
    /\ pc = "done"
    /\ Len(send_payload(payload, alert)) = config.APNS_MAX_NOTIFICATION_SIZE
    /\ Len(written) = 1
    /\ result = Return(<<>>)


(* C15: a send that was given a connection and whose token and payload     *)
(* pass validation ends after exactly one write, made on that connection:  *)
(* it has opened nothing, read nothing, run no check_errors and closed     *)
(* nothing; it returns when the write succeeds (a failed write raises the  *)
(* socket error); and no step of the call changes the supplied connection, *)
(* neither its timeout nor its being open.                                 *)
C15_SuppliedConnectionOnlyWritten ==
    /\ []((/\ op = "send"
           /\ conn["supplied"].state # "none"
           /\ pc = "done"
           /\ send_raises(tokens[1], payload, alert, config) = None)
          => (/\ writes = 1
              /\ opens = 0
              /\ reads = 0
              /\ checks = 0
              /\ closes = 0
              /\ conn["own"].state = "none"
              /\ conn["supplied"].state = "open"
              /\ (result.kind = "return" =>
                      Len(written) = 1 /\ written[1].to = "supplied")
              /\ (result.kind = "raise" =>
                      result = Raise(socket_error) /\ net # "open" /\ written = <<>>)
              /\ (net = "open" => result = Return(<<>>))))
    /\ [][pc # "idle" => conn'["supplied"] = conn["supplied"]]_vars

C15_Witness ==
    /\ op = "send"
    /\ pc = "done"
    /\ conn["supplied"] = [state |-> "open", timeout |-> Some(5)]
    /\ Len(written) = 1
    /\ written[1].to = "supplied"
    /\ result = Return(<<>>)


(* C16: send_bulk never opens more than one connection, has exactly one    *)
(* open from the moment create_push_socket succeeded, and writes every     *)
(* frame on it, at most one per token; for an empty tokens sequence the    *)
(* call is one open, no write, one check_errors and one close; once an     *)
(* error is under way no connection is opened and nothing is written.      *)
C16_OneConnectionPerBatch ==
    /\ [](op = "send_bulk" =>
            /\ opens <= 1
            /\ writes <= Len(tokens)
            /\ \A k \in 1..Len(written) : written[k].to = "own"
            /\ (pc \in {"bulk_loop", "check_errors", "check_recv", "exit"} =>
                    opens = 1)
            /\ (pc = "done" /\ opens = 1 => closes = 1)
            /\ (pc = "done" /\ opens = 1 /\ tokens = <<>> =>
                    writes = 0 /\ checks = 1 /\ closes = 1))
    /\ [][(op = "send_bulk" /\ (raised # None \/ result.kind = "raise")) =>
            (opens' = opens /\ writes' = writes /\ written' = written)]_vars

C16_Witness ==
    /\ op = "send_bulk"
    /\ tokens = <<>>
    /\ pc = "done"
    /\ opens = 1
    /\ writes = 0
    /\ checks = 1
    /\ closes = 1


(* the payload item of a written frame *)
FramePayload(frame) == ParseItems(frame, 6, 5)[2].data

(* C17: in send_bulk create_payload is called once, at the start of the    *)
(* call, when no payload was supplied, and never when one was supplied; a  *)
(* supplied payload is kept as it is; afterwards the payload is neither    *)
(* rebuilt nor changed, and the payload item of every frame written is     *)
(* that payload.                                                           *)
C17_PayloadBuiltOnce ==
    /\ [](op = "send_bulk" /\ pc # "send_bulk" =>
            /\ builds <= 1
            /\ payload # None
            /\ (builds = 1 => payload = Some(create_payload(alert)))
            /\ \A k \in 1..Len(written) :
                  FramePayload(written[k].frame) = payload[1])
    /\ [][op = "send_bulk" =>
            IF pc = "send_bulk"
            THEN IF payload = None
                 THEN builds' = 1 /\ payload' = Some(create_payload(alert))
                 ELSE builds' = 0 /\ payload' = payload
            ELSE builds' = builds /\ payload' = payload]_vars

C17_Witness ==
    /\ op = "send_bulk"
    /\ pc = "done"
    /\ builds = 1
    /\ Len(written) = 2
    /\ \A k \in 1..2 : FramePayload(written[k].frame) = create_payload(alert)

(* a batch with a supplied payload: two frames written, nothing built *)
C17_WitnessSupplied ==
    /\ op = "send_bulk"
    /\ pc = "done"
    /\ builds = 0
    /\ Len(written) = 2
    /\ \A k \in 1..2 : FramePayload(written[k].frame) = payload[1]


(* the positions (counted from one) of the invalid tokens, and the first   *)
InvalidPositions == {k \in 1..Len(tokens) : ~is_valid_token(tokens[k])}
FirstInvalid == CHOOSE k \in InvalidPositions : \A j \in InvalidPositions : k <= j

PayloadFits ==
    Len(send_payload(payload, alert)) <= config.APNS_MAX_NOTIFICATION_SIZE

(* C18 as stated: a send_bulk call on an opened connection whose first     *)
(* invalid token is at position k ends with exactly the frames of the      *)
(* positions before k written, no check_errors, the connection closed and  *)
(* the validation error raised.                                            *)
C18_FramesBeforeFirstInvalid ==
    (op = "send_bulk" /\ InvalidPositions # {} /\ pc = "done" /\ opens = 1) =>
        /\ Len(written) = FirstInvalid - 1
        /\ checks = 0
        /\ closes = 1
        /\ result = Raise(APNSError("Invalid token format"))

(* C18, amended: with an invalid token in the sequence, no frame for the   *)
(* position of the first invalid token or a later one is ever written and  *)
(* check_errors is never entered, nothing is read, and an opened           *)
(* connection is closed when the call ends with an exception; when the     *)
(* payload is within the size limit and no earlier write failed, exactly   *)
(* the frames of the positions before the first invalid token have been    *)
(* written, in order, and the validation error is what is raised.          *)
C18_FramesBeforeFirstInvalidUnlessEarlierFailure ==
    (op = "send_bulk" /\ InvalidPositions # {}) =>
        /\ Len(written) <= FirstInvalid - 1
        /\ writes <= FirstInvalid - 1
        /\ \A j \in 1..Len(written) :
              FrameIdentifier(written[j].frame) = j - 1
        /\ checks = 0
        /\ reads = 0
        /\ (pc = "done" /\ opens = 1 => closes = 1 /\ result.kind = "raise")
        /\ (pc = "done" /\ opens = 1 /\ PayloadFits /\ writes = Len(written) =>
               /\ Len(written) = FirstInvalid - 1
               /\ result = Raise(APNSError("Invalid token format")))

C18_Witness ==
    /\ op = "send_bulk"
    /\ pc = "done"
    /\ tokens = <<TokenA, TokenShort>>
    /\ opens = 1
    /\ Len(written) = 1
    /\ checks = 0
    /\ closes = 1
    /\ result = Raise(APNSError("Invalid token format"))


(* C19: when the read of check_errors (timeout enabled) returned no bytes,  *)
(* check_errors raises nothing, not even a decoding error, the connection  *)
(* has the timeout it had on entry, and send or send_bulk returns          *)
(* normally.                                                               *)
C19_EmptyReadIsSuccess ==
    (PushCall /\ checks = 1 /\ reads = 1 /\ data = Some(<<>>))
    => (/\ config.APNS_ERROR_TIMEOUT # None
        /\ pc \in {"exit", "done"}
        /\ raised = None
        /\ conn["own"].timeout = entry_timeout
        /\ (pc = "done" => result = Return(<<>>)))

C19_Witness ==
    /\ PushCall
    /\ pc = "done"
    /\ checks = 1
    /\ reads = 1
    /\ data = Some(<<>>)
    /\ net = "closed"
    /\ entry_timeout # config.APNS_ERROR_TIMEOUT
    /\ result = Return(<<>>)


FeedbackCall == op = "get_expired_tokens"

(* C20: the feedback loop is left without an exception only by a header   *)
(* read that returned no bytes; a read that times out adds no record,      *)
(* raises nothing and is followed by a header read; as long as every read  *)
(* made has timed out the call has not ended; a loop left by an empty      *)
(* header read leads to the return of get_expired_tokens, and once the     *)
(* service has closed the connection the call ends.                        *)
C20_ReturnsOnlyAfterEmptyHeader ==
    /\ [][(FeedbackCall /\ pc # "exit" /\ pc' = "exit" /\ raised' = None) =>
            (/\ pc = "fb_header"
             /\ reads' = reads + 1
             /\ data' = Some(<<>>)
             /\ length' = 6)]_vars
    /\ [][(FeedbackCall /\ timeouts' = timeouts + 1) =>
            (/\ pc' = "fb_header"
             /\ expired_tokens' = expired_tokens
             /\ raised' = None
             /\ result' = NoResult)]_vars
    /\ [](FeedbackCall /\ opens = 1 /\ reads = timeouts =>
            pc = "fb_header" /\ result = NoResult)
    /\ [](FeedbackCall /\ pc = "done" /\ result.kind = "return" =>
            data = Some(<<>>) /\ result.value = expired_tokens)
    /\ ((FeedbackCall /\ pc = "exit" /\ raised = None)
            ~> (pc = "done" /\ result = Return(expired_tokens)))
    /\ ((FeedbackCall /\ opens = 1 /\ net = "closed") ~> (pc = "done"))

C20_Witness ==
    /\ FeedbackCall
    /\ pc = "done"
    /\ timeouts >= 1
    /\ Len(expired_tokens) >= 1
    /\ data = Some(<<>>)
    /\ result = Return(expired_tokens)

====
